---- MODULE Spec2Model ----
(***************************************************************************)
(* Futoshiki solver: recursive backtracking search (Solver.solve) over     *)
(* snapshots of an N x N grid, with one-pass candidate pruning             *)
(* (Solver.update_possibilities), a consistency check                      *)
(* (Solver.checkConsistency) and a completeness check (Solver.isComplete). *)
(*                                                                         *)
(* The recursion of solve is unrolled into a call stack.  The snapshots    *)
(* live in a heap `boards`: boards[1] is the caller's initial snapshot and *)
(* the call at depth d has `snapshot` = boards[d] and `new_snapshot` =     *)
(* boards[d+1].  Candidate lists are kept in ascending order: every list   *)
(* the code builds is a range, a list(set(..)) of small integers, or such  *)
(* a list with one element removed.                                        *)
(***************************************************************************)
EXTENDS Integers, Sequences, FiniteSets, TLC

VARIABLES boards, stack, pc, result

vars == <<boards, stack, pc, result>>

\* ------------------------------------------------------------------ bounds
\* Largest number of clues on an initial board.
MaxClues == 4
\* Largest number of inequality constraints of a puzzle.
MaxCons == 2

\* Dimensions of the puzzles explored.
SmallDim == 2
ExampleDim == 3
FullDim == 5
LargeDim == 6

\* ------------------------------------------------------------- Cell.py
\* cell.__init__: every new cell starts with possibles = [1,2,3,4,5].
MaxPossible == 5

InitPossibles == 1..MaxPossible

\* ------------------------------------------------------------ snapshot
Positions(n) == (0..(n-1)) \X (0..(n-1))

\* Row-major scan position k (0-based) of an n x n grid.
PosOf(n, k) == <<k \div n, k % n>>

\* snapshot.unsolvedCells(): the cells with value 0 in row-major order.
RECURSIVE unsolvedFrom(_, _)
unsolvedFrom(b, k) ==
    IF k >= b.rows * b.rows THEN <<>>
    ELSE IF b.cells[PosOf(b.rows, k)] = 0
         THEN <<PosOf(b.rows, k)>> \o unsolvedFrom(b, k + 1)
         ELSE unsolvedFrom(b, k + 1)

unsolvedCells(b) == unsolvedFrom(b, 0)

\* snapshot.cellsByRow(r) / cellsByCol(c): the positions of a row / column.
cellsByRow(b, r) == {p \in Positions(b.rows) : p[1] = r}

cellsByCol(b, c) == {p \in Positions(b.rows) : p[2] = c}

\* snapshot.getConstraints(): the (lesser, greater) pairs, in list order.
getConstraints(b) ==
    [i \in 1..Len(b.constraints) |->
        <<<<b.constraints[i][1], b.constraints[i][2]>>,
          <<b.constraints[i][3], b.constraints[i][4]>>>>]

\* snapshot.setCellVal(i, j, val) -> cell.setVal(val): only the value changes.
setVal(b, p, v) == [b EXCEPT !.cells[p] = v]

\* cell.setPossibilities(possibles)
setPossibilities(b, p, d) == [b EXCEPT !.possibles[p] = d]

\* snapshot.clone(): a copy of the grid, values and candidate sets, sharing
\* the constraint list.
clone(b) == [rows |-> b.rows, cells |-> b.cells, possibles |-> b.possibles,
             constraints |-> b.constraints]

\* ----------------------------------------------------- Solver.isComplete
isComplete(b) == \A p \in Positions(b.rows) : b.cells[p] # 0

\* ------------------------------------------------ Solver.checkConsistency
\* len(set(nonzero values)) = len(nonzero values) over the cells ps.
NoRepeat(b, ps) ==
    Cardinality({b.cells[p] : p \in {q \in ps : b.cells[q] # 0}})
        = Cardinality({q \in ps : b.cells[q] # 0})

\* checkConsistency with the column test left out.
checkConsistencyRowsOnly(b) ==
    /\ \A i \in 0..(b.rows - 1) : NoRepeat(b, cellsByRow(b, i))
    /\ \A k \in 1..Len(b.constraints) :
          LET c == b.constraints[k]
              cell_1 == b.cells[<<c[1], c[2]>>]
              cell_2 == b.cells[<<c[3], c[4]>>]
          IN  (cell_1 > 0 /\ cell_2 > 0) => ~(cell_1 >= cell_2)

checkConsistency(b) ==
    /\ \A i \in 0..(b.rows - 1) :
          NoRepeat(b, cellsByRow(b, i)) /\ NoRepeat(b, cellsByCol(b, i))
    /\ \A k \in 1..Len(b.constraints) :
          LET c == b.constraints[k]
              cell_1 == b.cells[<<c[1], c[2]>>]
              cell_2 == b.cells[<<c[3], c[4]>>]
          IN  (cell_1 > 0 /\ cell_2 > 0) => ~(cell_1 >= cell_2)

\* -------------------------------------------- Solver.update_possibilities
\* Nonzero values held by the cells ps (row_vals / col_vals without zeros).
NonZeroVals(b, ps) == {b.cells[q] : q \in {q \in ps : b.cells[q] # 0}}

\* Lines 61-73: remove the values already in the cell's row, then those in
\* its column.
RowColExclusion(b, p) ==
    LET afterRow == setPossibilities(b, p,
                       b.possibles[p] \ NonZeroVals(b, cellsByRow(b, p[1])))
    IN  setPossibilities(afterRow, p,
            afterRow.possibles[p] \ NonZeroVals(afterRow, cellsByCol(afterRow, p[2])))

\* Lines 82-94: the cell is the smaller-than cell of constraint c.
LesserRule(b, p, c) ==
    IF c[1] = p
    THEN LET bigger_cell == b.cells[c[2]]
         IN  IF bigger_cell # 0
             THEN setPossibilities(b, p, 1..(bigger_cell - 1))
             ELSE setPossibilities(b, p, b.possibles[p] \ {b.rows})
    ELSE b

\* Lines 97-109: the cell is the larger-than cell of constraint c.
GreaterRule(b, p, c) ==
    IF c[2] = p
    THEN LET smaller_cell == b.cells[c[1]]
         IN  IF smaller_cell # 0
             THEN setPossibilities(b, p, (smaller_cell + 1)..b.rows)
             ELSE setPossibilities(b, p, b.possibles[p] \ {1})
    ELSE b

\* Lines 79-109: the loop over the constraints, from the k-th on.  Each
\* intermediate board is bound to its value before the next rule reads it.
RECURSIVE ConstraintRules(_, _, _)
ConstraintRules(b, p, k) ==
    IF k > Len(b.constraints) THEN b
    ELSE CHOOSE r \in
            {ConstraintRules(b2, p, k + 1) :
                b2 \in {GreaterRule(b1, p, getConstraints(b1)[k]) :
                    b1 \in {LesserRule(b, p, getConstraints(b)[k])}}} : TRUE

\* Lines 112-127 (row) and 130-145 (column): with more than one candidate,
\* subtract the candidates of every other cell of the line; a single survivor
\* becomes the cell's only candidate.
OnlyHere(b, p, line) ==
    b.possibles[p] \ UNION {b.possibles[q] : q \in line \ {p}}

CrossReference(b, p, line) ==
    IF Cardinality(b.possibles[p]) > 1 /\ Cardinality(OnlyHere(b, p, line)) = 1
    THEN setPossibilities(b, p, OnlyHere(b, p, line))
    ELSE b

\* Lines 59-145: the body of the loop for one unsolved cell.
UpdateCell(b, p) ==
    CHOOSE r \in
        {CrossReference(b3, p, cellsByCol(b3, p[2])) :
            b3 \in {CrossReference(b2, p, cellsByRow(b2, p[1])) :
                b2 \in {ConstraintRules(b1, p, 1) :
                    b1 \in {RowColExclusion(b, p)}}}} : TRUE

\* Line 58: the loop over snapshot.unsolvedCells(), from the k-th on.
RECURSIVE UpdateCells(_, _, _)
UpdateCells(b, cs, k) ==
    IF k > Len(cs) THEN b
    ELSE CHOOSE r \in
            {UpdateCells(b1, cs, k + 1) : b1 \in {UpdateCell(b, cs[k])}} : TRUE

update_possibilities(b) ==
    CHOOSE r \in {UpdateCells(b, cs, 1) : cs \in {unsolvedCells(b)}} : TRUE

\* ------------------------------------------------------------ Solver.solve
\* The list `for possibility in next_cell.possibles` walks, in list order.
PossiblesList(S) == SelectSeq([v \in 1..MaxPossible |-> v], LAMBDA v : v \in S)

\* Depth of the running call: the call at depth d reads boards[d].
Depth == Len(stack) + 1

\* The trial value written into the snapshot the call was given instead of
\* its clone.
TrialAssignOnCaller(bs, d, cell, v) == [bs EXCEPT ![d] = setVal(bs[d], cell, v)]

\* The trial value written with row and column exchanged.
TrialAssignSwapped(bs, d, cell, v) ==
    [bs EXCEPT ![d + 1] = setVal(bs[d + 1], <<cell[2], cell[1]>>, v)]

\* Line 31: new_snapshot.setCellVal(next_cell.row, next_cell.col, possibility)
\* by the call at depth d.
TrialAssign(bs, d, cell, v) == [bs EXCEPT ![d + 1] = setVal(bs[d + 1], cell, v)]

\* Lines 16-17: a complete and consistent snapshot: return True.
ReturnSolved ==
    /\ pc = "call"
    /\ isComplete(boards[Depth]) /\ checkConsistency(boards[Depth])
    /\ pc' = "return"
    /\ result' = TRUE
    /\ UNCHANGED <<boards, stack>>

\* Lines 21, 43: a complete but inconsistent snapshot: return False.
ReturnRejected ==
    /\ pc = "call"
    /\ isComplete(boards[Depth]) /\ ~checkConsistency(boards[Depth])
    /\ pc' = "return"
    /\ result' = FALSE
    /\ UNCHANGED <<boards, stack>>

\* Lines 21-29: pick the first unsolved cell, clone, prune the clone and
\* start the loop over the candidates of the cell of the given snapshot.
Branch ==
    /\ pc = "call"
    /\ ~isComplete(boards[Depth])
    /\ \E snapshot \in {boards[Depth]} :
       \E next_cell \in {unsolvedCells(snapshot)[1]} :
       \E new_snapshot \in {update_possibilities(clone(snapshot))} :
          /\ boards' = Append(boards, new_snapshot)
          /\ stack' = Append(stack,
                 [cell |-> next_cell,
                  possibles |-> PossiblesList(snapshot.possibles[next_cell]),
                  i |-> 0])
    /\ pc' = "loop"
    /\ UNCHANGED result

\* Lines 29-38: the next candidate is written into the clone; a consistent
\* clone is handed to a recursive call, an inconsistent one is skipped.
TryPossibility ==
    /\ pc = "loop"
    /\ LET f == stack[Len(stack)]
           d == Len(stack)
       IN  /\ f.i < Len(f.possibles)
           /\ boards' = TrialAssign(boards, d, f.cell, f.possibles[f.i + 1])
           /\ stack' = [stack EXCEPT ![d].i = f.i + 1]
           /\ pc' = IF checkConsistency(boards'[d + 1]) THEN "call" ELSE "loop"
    /\ UNCHANGED result

\* Line 43: the candidates are used up: return False; the clone is dropped.
Exhausted ==
    /\ pc = "loop"
    /\ LET f == stack[Len(stack)]
       IN  f.i = Len(f.possibles)
    /\ boards' = SubSeq(boards, 1, Len(boards) - 1)
    /\ stack' = SubSeq(stack, 1, Len(stack) - 1)
    /\ pc' = "return"
    /\ result' = FALSE

\* Lines 38-40: the recursive call returned True: return True.
PassSuccess ==
    /\ pc = "return"
    /\ stack # <<>>
    /\ result = TRUE
    /\ stack' = SubSeq(stack, 1, Len(stack) - 1)
    /\ UNCHANGED <<boards, pc, result>>

\* Lines 38-39, 29: the recursive call returned False: on to the next
\* candidate.
Backtrack ==
    /\ pc = "return"
    /\ stack # <<>>
    /\ result = FALSE
    /\ pc' = "loop"
    /\ UNCHANGED <<boards, stack, result>>

\* The outermost call has returned to its caller.
Finish ==
    /\ pc = "return"
    /\ stack = <<>>
    /\ pc' = "done"
    /\ UNCHANGED <<boards, stack, result>>

\* --------------------------------------------------------- initial boards
\* Ordered pairs of horizontally or vertically adjacent cells, as the
\* 4-tuples (row, col, row, col) kept in snapshot.constraints.
Adjacent(p, q) ==
    \/ p[1] = q[1] /\ (p[2] - q[2] = 1 \/ q[2] - p[2] = 1)
    \/ p[2] = q[2] /\ (p[1] - q[1] = 1 \/ q[1] - p[1] = 1)

ConstraintChoices(n) ==
    {<<p[1], p[2], q[1], q[2]>> : <<p, q>> \in
        {pq \in Positions(n) \X Positions(n) : Adjacent(pq[1], pq[2])}}

\* Lists of at most k constraints, none listed twice.
ConstraintLists(n, k) ==
    UNION {{c \in [1..j -> ConstraintChoices(n)] :
               \A x, y \in 1..j : x # y => c[x] # c[y]} : j \in 0..k}

\* A snapshot as the loader builds it: every cell is a fresh cell.
NewSnapshot(n, grid, cons) ==
    [rows |-> n, cells |-> grid,
     possibles |-> [p \in Positions(n) |-> InitPossibles],
     constraints |-> cons]

\* Grids of dimension n with clues (values 1..n) on at most k cells of ps.
ClueGrids(n, ps, k) ==
    UNION {
        {[p \in Positions(n) |-> IF p \in S THEN g[p] ELSE 0] : g \in [S -> 1..n]}
        : S \in {T \in SUBSET ps : Cardinality(T) <= k}}

\* Every 2 x 2 puzzle with at most MaxClues clues and MaxCons constraints.
SmallBoards ==
    {NewSnapshot(SmallDim, grid, cons) :
        grid \in ClueGrids(SmallDim, Positions(SmallDim), MaxClues),
        cons \in ConstraintLists(SmallDim, MaxCons)}

\* The 3 x 3 puzzles of the examples and their neighbours: clues in row 0
\* only, at most one constraint.
ExampleBoards ==
    {NewSnapshot(ExampleDim, grid, cons) :
        grid \in ClueGrids(ExampleDim, cellsByRow([rows |-> ExampleDim], 0), ExampleDim),
        cons \in ConstraintLists(ExampleDim, 1)}

\* The cyclic Latin square of dimension n with the cells S blanked.
CyclicGrid(n, S) ==
    [p \in Positions(n) |-> IF p \in S THEN 0 ELSE ((p[1] + p[2]) % n) + 1]

\* 5 x 5 puzzles: the cyclic Latin square with some cells of its top left
\* 2 x 2 block blanked, at most one constraint inside the block.
FullBoards ==
    {NewSnapshot(FullDim, CyclicGrid(FullDim, S), cons) :
        S \in SUBSET Positions(SmallDim),
        cons \in {c \in ConstraintLists(FullDim, 1) :
                     \A j \in 1..Len(c) : \A x \in 1..4 : c[j][x] < SmallDim}}

\* 6 x 6 puzzles: the cyclic Latin square with at most one cell of row 0
\* blanked, no constraint.
LargeBoards ==
    {NewSnapshot(LargeDim, CyclicGrid(LargeDim, S), <<>>) :
        S \in {T \in SUBSET cellsByRow([rows |-> LargeDim], 0) : Cardinality(T) <= 1}}

InitialBoards == SmallBoards \cup ExampleBoards \cup FullBoards \cup LargeBoards

Init ==
    /\ \E b \in InitialBoards : boards = <<b>>
    /\ stack = <<>>
    /\ pc = "call"
    /\ result = FALSE

Next ==
    \/ ReturnSolved
    \/ ReturnRejected
    \/ Branch
    \/ TryPossibility
    \/ Exhausted
    \/ PassSuccess
    \/ Backtrack
    \/ Finish

Spec == Init /\ [][Next]_vars

\* solve runs to completion: no step of the interpreter is postponed forever.
LiveSpec == Spec /\ WF_vars(Next)

\* ============================================================ properties
\* The rules of the puzzle, stated on their own.
Assigned(b) == {p \in Positions(b.rows) : b.cells[p] # 0}

SameLine(p, q) == p # q /\ (p[1] = q[1] \/ p[2] = q[2])

Complete(b) == Assigned(b) = Positions(b.rows)

Consistent(b) ==
    /\ \A p, q \in Assigned(b) : SameLine(p, q) => b.cells[p] # b.cells[q]
    /\ \A k \in 1..Len(b.constraints) :
          LET l == <<b.constraints[k][1], b.constraints[k][2]>>
              g == <<b.constraints[k][3], b.constraints[k][4]>>
          IN  (l \in Assigned(b) /\ g \in Assigned(b)) => b.cells[l] < b.cells[g]

\* Every row and column holds each of 1..N once.
LatinSquare(b) ==
    /\ \A p \in Positions(b.rows) : b.cells[p] \in 1..b.rows
    /\ \A p, q \in Positions(b.rows) : SameLine(p, q) => b.cells[p] # b.cells[q]

\* A reference search: can the cells cs[k..] of b be filled with values of
\* 1..N so that the whole board is a consistent Latin square?
RECURSIVE Fillable(_, _, _)
Fillable(b, cs, k) ==
    IF ~Consistent(b) THEN FALSE
    ELSE IF k > Len(cs) THEN TRUE
    ELSE \E v \in 1..b.rows : Fillable(setVal(b, cs[k], v), cs, k + 1)

HasSolution(b) ==
    /\ \A p \in Assigned(b) : b.cells[p] \in 1..b.rows
    /\ Fillable(b, unsolvedCells(b), 1)

\* The board the running call was given, its clone, and the point right after
\* update_possibilities(new_snapshot), before the first trial assignment.
Top == stack[Len(stack)]

JustPruned == pc = "loop" /\ Top.i = 0

Returned == pc \in {"return", "done"}

\* C1: when solve returns True, the board of the call that found the solution
\* is complete and consistent.
Soundness ==
    (Returned /\ result = TRUE) =>
        Complete(boards[Len(boards)]) /\ Consistent(boards[Len(boards)])

SoundnessWitness ==
    /\ pc = "done" /\ result = TRUE
    /\ Len(boards) > 2
    /\ Len(boards[1].constraints) > 0

\* C2: when solve returns False on the initial board, the puzzle has no
\* solution.
FailureCorrectness ==
    (pc = "done" /\ result = FALSE) => ~HasSolution(boards[1])

\* C4: right after update_possibilities, every candidate set of the clone is
\* a subset of the candidate set it had before the call (the one it was
\* cloned with).
PruningMonotone ==
    JustPruned =>
        \A p \in Positions(boards[1].rows) :
            boards[Len(stack) + 1].possibles[p] \subseteq boards[Len(stack)].possibles[p]

\* C5: an inconsistent initial board is rejected before any clone is made.
FailFast == ~Consistent(boards[1]) => Len(boards) = 1 /\ stack = <<>>

\* C6: when solve returns True, the solved board is a Latin square on 1..N.
LatinResult ==
    (Returned /\ result = TRUE) => LatinSquare(boards[Len(boards)])

\* C8: on every board, a cell with a value has exactly that value as its
\* candidate set.
CellInvariant ==
    \A k \in 1..Len(boards) : \A p \in Assigned(boards[k]) :
        boards[k].possibles[p] = {boards[k].cells[p]}

\* C9: right after update_possibilities, the candidates of an unsolved cell
\* respect every constraint whose other end is assigned.
InequalityTightening ==
    JustPruned =>
        LET b == boards[Len(stack) + 1]
        IN  \A k \in 1..Len(b.constraints) :
               LET l == <<b.constraints[k][1], b.constraints[k][2]>>
                   g == <<b.constraints[k][3], b.constraints[k][4]>>
               IN  /\ (b.cells[l] = 0 /\ b.cells[g] # 0) =>
                          \A x \in b.possibles[l] : x < b.cells[g]
                   /\ (b.cells[g] = 0 /\ b.cells[l] # 0) =>
                          \A x \in b.possibles[g] : x > b.cells[l]

\* C10: clues are kept on every board, a board agrees with the board it was
\* cloned from on every assigned cell, and a call writes only to the first
\* unsolved cell of the board it was given.
CluePreservation ==
    /\ \A k \in 1..Len(boards) : \A p \in Assigned(boards[1]) :
          boards[k].cells[p] = boards[1].cells[p]
    /\ \A k \in 1..Len(stack) :
          /\ stack[k].cell = unsolvedCells(boards[k])[1]
          /\ \A p \in Positions(boards[k].rows) \ {stack[k].cell} :
                boards[k + 1].cells[p] = boards[k].cells[p]

CluePreservationWitness ==
    /\ pc = "call"
    /\ Len(stack) > 1
    /\ Assigned(boards[1]) # {}

\* C3: solve returns; every recursive call is made on a board with exactly
\* one more assigned cell than the board of its caller, and the recursion is
\* never deeper than N * N.
CallsAddOneCell ==
    \A k \in 1..Len(stack) :
        (k < Len(stack) \/ pc = "call") =>
            Cardinality(Assigned(boards[k + 1])) = Cardinality(Assigned(boards[k])) + 1

DepthBound == Len(stack) <= boards[1].rows * boards[1].rows

Termination == <>(pc = "done") /\ [](CallsAddOneCell /\ DepthBound)

TerminationWitness ==
    /\ pc = "done" /\ result = TRUE
    /\ Len(boards) = boards[1].rows * boards[1].rows + 1

====
